---- MODULE Spec2Model ----
(***************************************************************************)
(* Real-time delivery and presence subsystem of the chat backend:          *)
(* the socket handler (src/unnamed/part_001), the REST message routes      *)
(* (src/routes/messageRoutes.js) and the call routes                       *)
(* (src/routes/callRoutes.js).                                             *)
(*                                                                         *)
(* Granularity.  JavaScript runs the code between two awaits atomically;   *)
(* every `await db.query(...)` is a suspension point.  One step of the     *)
(* model is one persistence call taking effect together with the           *)
(* synchronous code that runs when it resolves (up to the next await).     *)
(* The receipt of an event and the first query of its handler are one      *)
(* step.  Handlers of different events interleave freely between steps.    *)
(***************************************************************************)
EXTENDS Integers, Sequences, FiniteSets, TLC

\* ---------------------------------------------------------------- bounds
NumUsers == 3
NumConvs == 2
MaxMsgs == 2
MaxSockets == 3
MaxTasks == 2
MaxRequests == 3
MaxConns == 2
MaxBusy == 1
MaxCalls == 1
MaxClock == 3

Users == 1..NumUsers
Convs == 1..NumConvs
Sockets == 1..MaxSockets
Slots == 1..MaxTasks
MsgIds == 1..MaxMsgs
CallIds == 1..MaxCalls

\* Map.get on a missing key / SQL NULL / an id that names nothing.
None == 0

\* conversation_participants at start: conversation c holds users 1..c+1,
\* so conversation 1 is a private chat of users 1 and 2 (user 3 is an
\* outsider to it) and conversation 2 is a group of three.
InitParticipants == {<<c, u>> \in Convs \X Users : u <= c + 1}


VARIABLES
  participants,    \* conversation_participants: set of <<conversation, user>>
  lastRead,        \* conversation_participants.last_read_message_id (None = NULL)
  messages,        \* messages table: row id = index; [conv, sender, status, deleted]
  receipts,        \* message_read_receipts: set of <<message id, user>>
  isOnline,        \* users.is_online
  connectedUsers,  \* Map userId -> socketId (None = absent)
  userSockets,     \* Map socketId -> userId (None = absent)
  socks,           \* the connections and the helpers their connect / disconnect started
  tasks,           \* event handlers and REST requests in flight, one per slot
  out,             \* what the last step emitted: events, acknowledgments
  calls,           \* calls table: row id = index; [caller, callee, status, started, ended, duration]
  now,             \* the clock (NOW(), new Date()), in seconds
  reqs,            \* client requests received so far (bounded by MaxRequests)
  hist             \* observation only: per message, how the send saw presence and
                   \* how many `delivered` updates were emitted for it

vars == <<participants, lastRead, messages, receipts, isOnline, connectedUsers,
          userSockets, socks, tasks, out, calls, now, reqs, hist>>

dbVars == <<participants, lastRead, messages, receipts, isOnline, calls, now>>

chatVars == <<participants, lastRead, messages, receipts, isOnline>>
msgVars == <<participants, lastRead, messages, receipts, isOnline, hist>>

\* ---------------------------------------------------------------- helpers
Rank(s) == CASE s = "sent" -> 1 [] s = "delivered" -> 2 [] s = "read" -> 3

Max2(a, b) == IF a >= b THEN a ELSE b

RECURSIVE SetMax(_)
SetMax(S) == IF S = {} THEN 0
             ELSE LET x == CHOOSE y \in S : TRUE IN Max2(x, SetMax(S \ {x}))

\* A finite set of integers as the ascending sequence of its elements.
RECURSIVE SortedSeq(_)
SortedSeq(S) == IF S = {} THEN <<>>
                ELSE LET x == CHOOSE y \in S : \A z \in S : y <= z
                     IN <<x>> \o SortedSeq(S \ {x})

RECURSIVE Flatten(_)
Flatten(ss) == IF ss = <<>> THEN <<>> ELSE Head(ss) \o Flatten(Tail(ss))

Count(seq, P(_)) == Cardinality({i \in DOMAIN seq : P(seq[i])})

\* What one step emits: socket events in emission order, acknowledgments in
\* call order, the number of events emitted before the first acknowledgment,
\* and the users a push notification is dispatched for.
NoOut == [ev |-> <<>>, ack |-> <<>>, ackAt |-> 0, push |-> {}]
Event(to, ev, conv, mid, status, by) ==
  [to |-> to, ev |-> ev, conv |-> conv, mid |-> mid, status |-> status, by |-> by]
Ack(who, op, ok) == [who |-> who, op |-> op, ok |-> ok]

IdleTask == [kind |-> "idle", pc |-> "idle", sock |-> None, user |-> None,
             conv |-> None, mid |-> None, online |-> FALSE, others |-> {}, val |-> 0,
             seen |-> "", seq |-> 0]
Task(kind, pc, sock, user, conv, mid) ==
  [kind |-> kind, pc |-> pc, sock |-> sock, user |-> user,
   conv |-> conv, mid |-> mid, online |-> FALSE, others |-> {}, val |-> 0,
   seen |-> "", seq |-> 0]

FreeSlot(t) == /\ tasks[t].kind = "idle"
               /\ \A r \in Slots : r < t => tasks[r].kind # "idle"

FreeSock == [st |-> "free", user |-> None, rooms |-> {}, sweep |-> "none",
             pending |-> {}, join |-> FALSE, online |-> FALSE, offline |-> FALSE]

\* A client request (socket event or REST call) is received.
Request == reqs < MaxRequests /\ reqs' = reqs + 1

\* Faulty variant: the conversation_participants row is not looked up.
IsParticipant_Anyone(c, u) == TRUE

IsParticipant(c, u) == <<c, u>> \in participants

Open(s) == socks[s].st = "open"

\* io.to(`conversation_${c}`).emit: every connected socket that joined the room.
RoomSockets(c) == {s \in Sockets : Open(s) /\ c \in socks[s].rooms}

InitHist == [offline |-> {}, dnotes |-> [m \in MsgIds |-> 0],
             answered |-> [k \in CallIds |-> None]]

\* Cap of the per-message counter of `delivered` updates kept in hist.
NoteDelivered(h, evs) ==
  [h EXCEPT !.dnotes = [m \in MsgIds |->
     LET n == h.dnotes[m] + Count(evs, LAMBDA e : e.ev = "message_status_update"
                                        /\ e.status = "delivered" /\ e.mid = m)
     IN IF n > 2 THEN 2 ELSE n]]

\* ---------------------------------------------------------------- Init
Init ==
  /\ participants = InitParticipants
  /\ lastRead = [p \in Convs \X Users |-> None]
  /\ messages = <<>>
  /\ receipts = {}
  /\ isOnline = [u \in Users |-> FALSE]
  /\ connectedUsers = [u \in Users |-> None]
  /\ userSockets = [s \in Sockets |-> None]
  /\ socks = [s \in Sockets |-> FreeSock]
  /\ tasks = [t \in Slots |-> IdleTask]
  /\ out = NoOut
  /\ calls = <<>>
  /\ now = 1
  /\ reqs = 0
  /\ hist = InitHist

\* ------------------------------------------------- connection lifecycle
\* connectedUsers.set(socket.userId, socket.id): last connect wins.
Register(u, s) == [connectedUsers EXCEPT ![u] = s]

\* Faulty variant: the entry is removed only when it names another socket.
Unregister_Other(u, s) ==
  IF connectedUsers[u] # s THEN [connectedUsers EXCEPT ![u] = None] ELSE connectedUsers

\* Faulty variant: the entry is left in the registry on disconnect.
Unregister_Keep(u, s) == connectedUsers

\* connectedUsers.delete(socket.userId): the entry of the user is removed
\* whichever socket it names.
Unregister(u, s) == [connectedUsers EXCEPT ![u] = None]

\* A handshake token: absent, not verifiable (bad signature or garbage),
\* expired, or valid; a verifiable token names a user id, which may be the id
\* of no row of users.
UnknownUser == NumUsers + 1
Tokens == [kind : {"missing", "invalid", "expired", "valid"}, user : Users \cup {UnknownUser}]

\* Faulty variant: the expiry of the token is not checked.
Verify_IgnoreExpiry(tok) == IF tok.kind \in {"valid", "expired"} THEN tok.user ELSE None

\* jwt.verify(token, secret): decoded.userId, or None where it throws.
Verify(tok) == IF tok.kind = "valid" THEN tok.user ELSE None

\* io.use middleware: the user the connection is authenticated as, or None
\* where next() is called with an error.
Authenticate(tok) ==
  IF tok.kind = "missing" THEN None
  ELSE IF Verify(tok) = None THEN None
  ELSE IF Verify(tok) \notin Users THEN None
  ELSE Verify(tok)

\* io.on("connection"): the synchronous part registers the socket and starts,
\* without awaiting them, updateUserOnlineStatus, deliverPendingMessages and
\* joinUserConversations; each runs on as a helper of the socket.
Connect(u) ==
  /\ UNCHANGED reqs
  /\ \E s \in Sockets :
       /\ socks[s].st = "free"
       /\ \A r \in Sockets : r < s => socks[r].st # "free"
       /\ connectedUsers' = Register(u, s)
       /\ userSockets' = [userSockets EXCEPT ![s] = u]
       /\ socks' = [socks EXCEPT ![s] =
            [st |-> "open", user |-> u, rooms |-> {}, sweep |-> "select",
             pending |-> {}, join |-> TRUE, online |-> TRUE, offline |-> FALSE]]
       /\ out' = NoOut
       /\ UNCHANGED <<dbVars, tasks, hist>>

\* A connection attempt: the middleware rejects it (connect_error at the
\* client, the connection handler never runs) or lets the connection handler
\* run for the authenticated user.
ConnectAttempt(tok) ==
  IF Authenticate(tok) = None
  THEN /\ out' = [NoOut EXCEPT !.ack = <<Ack(tok, "connect", FALSE)>>]
       /\ UNCHANGED <<dbVars, connectedUsers, userSockets, socks, tasks, reqs, hist>>
  ELSE Connect(Authenticate(tok))

\* updateUserOnlineStatus(userId, true, socket.id): the UPDATE users takes effect.
OnlineWrite(s) ==
  /\ UNCHANGED reqs
  /\ socks[s].online
  /\ isOnline' = [isOnline EXCEPT ![socks[s].user] = TRUE]
  /\ socks' = [socks EXCEPT ![s].online = FALSE]
  /\ out' = NoOut
  /\ UNCHANGED <<calls, now, participants, lastRead, messages, receipts, connectedUsers,
                 userSockets, tasks, hist>>

\* joinUserConversations: the SELECT of the user's conversations resolves and
\* the socket joins one room per row.  (A socket that disconnected meanwhile
\* is in no room: Disconnect drops the pending join.)
JoinRooms(s) ==
  /\ UNCHANGED reqs
  /\ socks[s].join
  /\ Open(s)
  /\ socks' = [socks EXCEPT ![s].join = FALSE,
                            ![s].rooms = {c \in Convs : IsParticipant(c, socks[s].user)}]
  /\ out' = NoOut
  /\ UNCHANGED <<dbVars, connectedUsers, userSockets, tasks, hist>>

\* Faulty variant: the SELECT with sender_id = ? in place of sender_id != ?.
PendingFor_Own(u) ==
  {m \in DOMAIN messages :
     /\ IsParticipant(messages[m].conv, u)
     /\ messages[m].sender = u
     /\ messages[m].status = "sent"
     /\ ~messages[m].deleted}

\* deliverPendingMessages, the SELECT: messages of the user's conversations,
\* authored by others, still 'sent' and not deleted.
PendingFor(u) ==
  {m \in DOMAIN messages :
     /\ IsParticipant(messages[m].conv, u)
     /\ messages[m].sender # u
     /\ messages[m].status = "sent"
     /\ ~messages[m].deleted}

SweepSelect(s) ==
  /\ UNCHANGED reqs
  /\ socks[s].sweep = "select"
  /\ LET p == PendingFor(socks[s].user) IN
       socks' = [socks EXCEPT ![s].sweep = IF p = {} THEN "done" ELSE "update",
                              ![s].pending = p]
  /\ out' = NoOut
  /\ UNCHANGED <<dbVars, connectedUsers, userSockets, tasks, hist>>

\* deliverPendingMessages, the UPDATE ... WHERE id IN (msgIds): every selected
\* row becomes 'delivered', whatever its status is by now.
SweepWrite(ids) ==
  [m \in DOMAIN messages |->
     IF m \in ids THEN [messages[m] EXCEPT !.status = "delivered"] ELSE messages[m]]

\* Faulty variant: one update per pending message instead of one per
\* conversation.
SweepEvents_PerMessage(ids) ==
  LET ss == SortedSeq({m \in ids : connectedUsers[messages[m].sender] # None})
  IN [i \in DOMAIN ss |->
        Event(connectedUsers[messages[ss[i]].sender], "message_status_update",
              messages[ss[i]].conv, ss[i], "delivered", None)]

\* deliverPendingMessages, the notification: per sender with a presence entry,
\* one update per conversation naming the highest pending id.
SweepEvents(ids) ==
  LET senders == {messages[m].sender : m \in ids}
      online == {a \in senders : connectedUsers[a] # None}
      convsOf(a) == {messages[m].conv : m \in {x \in ids : messages[x].sender = a}}
      last(a, c) == SetMax({m \in ids : messages[m].sender = a /\ messages[m].conv = c})
      perConv(a) == LET cs == SortedSeq(convsOf(a)) IN
                      [i \in DOMAIN cs |->
                         Event(connectedUsers[a], "message_status_update", cs[i],
                               last(a, cs[i]), "delivered", None)]
      ss == SortedSeq(online)
  IN Flatten([i \in DOMAIN ss |-> perConv(ss[i])])

SweepUpdate(s) ==
  /\ UNCHANGED reqs
  /\ socks[s].sweep = "update"
  /\ messages' = SweepWrite(socks[s].pending)
  /\ socks' = [socks EXCEPT ![s].sweep = "done", ![s].pending = {}]
  /\ out' = [NoOut EXCEPT !.ev = SweepEvents(socks[s].pending)]
  /\ hist' = NoteDelivered(hist, SweepEvents(socks[s].pending))
  /\ UNCHANGED <<calls, now, participants, lastRead, receipts, isOnline, connectedUsers,
                 userSockets, tasks>>

\* socket.on("disconnect"): the synchronous part removes the presence entry and
\* the socket leaves its rooms; the UPDATE users is awaited.
Disconnect(s) ==
  /\ UNCHANGED reqs
  /\ Open(s)
  /\ connectedUsers' = Unregister(socks[s].user, s)
  /\ userSockets' = [userSockets EXCEPT ![s] = None]
  /\ socks' = [socks EXCEPT ![s].st = "closed", ![s].rooms = {},
                            ![s].join = FALSE, ![s].offline = TRUE]
  /\ out' = NoOut
  /\ UNCHANGED <<dbVars, tasks, hist>>

\* disconnect, after the await: is_online = false is stored, then
\* socket.broadcast.emit("user_offline") reaches every other connected socket.
DisconnectWrite(s) ==
  /\ UNCHANGED reqs
  /\ socks[s].offline
  /\ isOnline' = [isOnline EXCEPT ![socks[s].user] = FALSE]
  /\ socks' = [socks EXCEPT ![s].offline = FALSE]
  /\ out' = [NoOut EXCEPT !.ev =
       LET ss == SortedSeq({r \in Sockets : Open(r) /\ r # s}) IN
         [i \in DOMAIN ss |-> Event(ss[i], "user_offline", None, None, "", socks[s].user)]]
  /\ UNCHANGED <<calls, now, participants, lastRead, messages, receipts, connectedUsers,
                 userSockets, tasks, hist>>

\* ------------------------------------------------------- send_message
SetTask(t, r) == [tasks EXCEPT ![t] = r]

RoomEvents(c, ev, mid, status, by, except) ==
  LET ss == SortedSeq(RoomSockets(c) \ except) IN
    [i \in DOMAIN ss |-> Event(ss[i], ev, c, mid, status, by)]

\* Rows still to be inserted by sends in flight (keeps ids within MaxMsgs).
InsertsInFlight ==
  Cardinality({t \in Slots : tasks[t].kind \in {"send", "rest_send"} /\ tasks[t].pc = "insert"})

\* send_message: the participant check; a non-participant is answered with a
\* failure acknowledgment, a participant's handler goes on to the INSERT.
SendStart(s, c) ==
  /\ Request
  /\ Open(s)
  /\ IF IsParticipant(c, socks[s].user)
     THEN /\ Len(messages) + InsertsInFlight < MaxMsgs
          /\ \E t \in Slots :
               /\ FreeSlot(t)
               /\ tasks' = SetTask(t, [Task("send", "insert", s, socks[s].user, c, None)
                                          EXCEPT !.seq = reqs + 1])
          /\ out' = NoOut
     ELSE /\ out' = [NoOut EXCEPT !.ack = <<Ack(s, "send_message", FALSE)>>]
          /\ UNCHANGED tasks
  /\ UNCHANGED <<dbVars, connectedUsers, userSockets, socks, hist>>

\* INSERT INTO messages ... 'sent'; messageId = result.insertId.  (The SELECT
\* of the created row that follows reads only columns no handler changes.)
SendInsert(t) ==
  /\ UNCHANGED reqs
  /\ tasks[t].kind = "send" /\ tasks[t].pc = "insert"
  /\ messages' = Append(messages, [conv |-> tasks[t].conv, sender |-> tasks[t].user,
                                   status |-> "sent", deleted |-> FALSE])
  /\ tasks' = SetTask(t, [tasks[t] EXCEPT !.pc = "others", !.mid = Len(messages) + 1])
  /\ out' = NoOut
  /\ UNCHANGED <<calls, now, participants, lastRead, receipts, isOnline, connectedUsers,
                 userSockets, socks, hist>>

\* SELECT cp.user_id ... WHERE cp.conversation_id = ? AND cp.user_id != ?
OtherParticipants(c, u) == {p \in Users : IsParticipant(c, p) /\ p # u}

\* for (const p of otherParticipants) if (connectedUsers.has(p.user_id)) anyOnline = true
AnyOnline(ps) == \E p \in ps : connectedUsers[p] # None

\* The SELECT of the other participants resolves; anyOnline is computed from
\* the presence registry.  With a recipient online the UPDATE is awaited next;
\* otherwise new_message (status 'sent') is broadcast to the room at once.
SendOthers(t) ==
  /\ UNCHANGED reqs
  /\ tasks[t].kind = "send" /\ tasks[t].pc = "others"
  /\ LET ps == OtherParticipants(tasks[t].conv, tasks[t].user)
         on == AnyOnline(ps) IN
       /\ tasks' = SetTask(t, [tasks[t] EXCEPT !.pc = IF on THEN "update" ELSE "final",
                                               !.online = on, !.others = ps])
       /\ out' = [NoOut EXCEPT !.ev =
            IF on THEN <<>>
            ELSE RoomEvents(tasks[t].conv, "new_message", tasks[t].mid, "sent",
                            tasks[t].user, {})]
       /\ hist' = IF on THEN hist
                  ELSE [hist EXCEPT !.offline = hist.offline \cup {tasks[t].mid}]
  /\ UNCHANGED <<dbVars, connectedUsers, userSockets, socks>>

\* UPDATE messages SET status = 'delivered' WHERE id = ?
SendWrite(mid) == [messages EXCEPT ![mid].status = "delivered"]

SendUpdate(t) ==
  /\ UNCHANGED reqs
  /\ tasks[t].kind = "send" /\ tasks[t].pc = "update"
  /\ messages' = SendWrite(tasks[t].mid)
  /\ tasks' = SetTask(t, [tasks[t] EXCEPT !.pc = "final"])
  /\ out' = [NoOut EXCEPT !.ev =
       RoomEvents(tasks[t].conv, "new_message", tasks[t].mid, "delivered",
                  tasks[t].user, {})]
  /\ UNCHANGED <<calls, now, participants, lastRead, receipts, isOnline, connectedUsers,
                 userSockets, socks, hist>>

\* Faulty variant: the sender is notified whether or not a recipient was online.
SendFinalEvents_Always(t) ==
  IF connectedUsers[tasks[t].user] # None
  THEN <<Event(connectedUsers[tasks[t].user], "message_status_update",
               tasks[t].conv, tasks[t].mid, "delivered", None)>>
  ELSE <<>>

\* After UPDATE conversations (last message; not modelled): the success
\* acknowledgment, then the `delivered` update to the sender's registered socket.
SendFinalEvents(t) ==
  IF tasks[t].online /\ connectedUsers[tasks[t].user] # None
  THEN <<Event(connectedUsers[tasks[t].user], "message_status_update",
               tasks[t].conv, tasks[t].mid, "delivered", None)>>
  ELSE <<>>

\* Faulty variant: the sender is notified before the callback runs.
SendAckAt_AfterNotify(t) == Len(SendFinalEvents(t))

\* callback?.({success: true}) runs before the sender is notified: no event
\* of the step precedes the acknowledgment.
SendAckAt(t) == 0

\* users.push_token as read with the other participants: a valid Expo token,
\* a string that is no Expo token, or NULL.
pushToken == [u \in Users |-> IF u = 3 THEN "invalid" ELSE IF u = 2 THEN "valid"
                              ELSE IF u = 1 THEN "valid" ELSE "none"]

\* Faulty variant: the presence registry is not consulted.
PushTargets_IgnorePresence(t) == {p \in tasks[t].others : pushToken[p] = "valid"}

\* The pushMessages loop: the other participants (as selected earlier) without
\* a presence entry now and with a token Expo.isExpoPushToken accepts.
PushTargets(t) ==
  {p \in tasks[t].others : connectedUsers[p] = None /\ pushToken[p] = "valid"}

\* The synchronous tail of the handler.  expo.chunkPushNotifications runs
\* inside the handler's try block but outside the inner try: when it throws
\* (thrown), nothing is dispatched and the catch block calls the callback
\* again; it is called only for a non-empty pushMessages.
SendFinalStep(t, thrown) ==
  /\ UNCHANGED reqs
  /\ tasks[t].kind = "send" /\ tasks[t].pc = "final"
  /\ thrown => PushTargets(t) # {}
  /\ tasks' = SetTask(t, IdleTask)
  /\ out' = [ev |-> SendFinalEvents(t),
             ack |-> IF thrown
                     THEN <<Ack(tasks[t].sock, "send_message", TRUE),
                            Ack(tasks[t].sock, "send_message", FALSE)>>
                     ELSE <<Ack(tasks[t].sock, "send_message", TRUE)>>,
             ackAt |-> SendAckAt(t),
             push |-> IF thrown THEN {} ELSE PushTargets(t)]
  /\ hist' = NoteDelivered(hist, SendFinalEvents(t))
  /\ UNCHANGED <<dbVars, connectedUsers, userSockets, socks>>

\* The handler's tail with the Expo client building its chunks normally.
SendFinal(t) == SendFinalStep(t, FALSE)

\* The handler's tail when the Expo client may throw while chunking.
SendFinalPush(t) == \E thrown \in BOOLEAN : SendFinalStep(t, thrown)

\* ------------------------------------------------------------- typing
\* Faulty variant: the indicator is sent with io.to(room), sender included.
Typing_IncludingSender(s, c) ==
  /\ Request
  /\ Open(s)
  /\ out' = [NoOut EXCEPT !.ev =
       IF IsParticipant(c, socks[s].user)
       THEN RoomEvents(c, "user_typing", None, "", socks[s].user, {})
       ELSE <<>>]
  /\ UNCHANGED <<dbVars, connectedUsers, userSockets, socks, tasks, hist>>

\* typing: one SELECT (participant check), then socket.to(room).emit.
Typing(s, c) ==
  /\ Request
  /\ Open(s)
  /\ out' = [NoOut EXCEPT !.ev =
       IF IsParticipant(c, socks[s].user)
       THEN RoomEvents(c, "user_typing", None, "", socks[s].user, {s})
       ELSE <<>>]
  /\ UNCHANGED <<dbVars, connectedUsers, userSockets, socks, tasks, hist>>

\* ------------------------------------------------------- mark_read (socket)
\* UPDATE conversation_participants SET last_read_message_id = ? WHERE
\* conversation_id = ? AND user_id = ?  (no row for a non-participant).
WatermarkWrite(c, u, mid) ==
  IF IsParticipant(c, u) THEN [lastRead EXCEPT ![<<c, u>>] = mid] ELSE lastRead

\* INSERT IGNORE INTO message_read_receipts (message_id, user_id): one row per
\* pair; a message id that names no row inserts nothing.
ReceiptWrite(mid, u) ==
  IF mid \in DOMAIN messages THEN receipts \cup {<<mid, u>>} ELSE receipts

MarkReadStart(s, c, mid) ==
  /\ Request
  /\ Open(s)
  /\ \E t \in Slots :
       /\ FreeSlot(t)
       /\ tasks' = SetTask(t, Task("mark_read", "receipt", s, socks[s].user, c, mid))
  /\ lastRead' = WatermarkWrite(c, socks[s].user, mid)
  /\ out' = NoOut
  /\ UNCHANGED <<calls, now, participants, messages, receipts, isOnline, connectedUsers,
                 userSockets, socks, hist>>

MarkReadReceipt(t) ==
  /\ UNCHANGED reqs
  /\ tasks[t].kind = "mark_read" /\ tasks[t].pc = "receipt"
  /\ receipts' = ReceiptWrite(tasks[t].mid, tasks[t].user)
  /\ tasks' = SetTask(t, [tasks[t] EXCEPT !.pc = "status"])
  /\ out' = NoOut
  /\ UNCHANGED <<calls, now, participants, lastRead, messages, isOnline, connectedUsers,
                 userSockets, socks, hist>>

\* Faulty variant: the UPDATE without `id <= ?`.
MarkReadTargets_NoUpperBound(c, mid, u) ==
  {m \in DOMAIN messages :
     messages[m].conv = c /\ messages[m].sender # u /\ messages[m].status # "read"}

\* UPDATE messages SET status = 'read' WHERE conversation_id = ? AND id <= ?
\* AND sender_id != ? AND status != 'read'
MarkReadTargets(c, mid, u) ==
  {m \in DOMAIN messages :
     messages[m].conv = c /\ m <= mid /\ messages[m].sender # u
       /\ messages[m].status # "read"}

StatusWrite(ids, st) ==
  [m \in DOMAIN messages |->
     IF m \in ids THEN [messages[m] EXCEPT !.status = st] ELSE messages[m]]

\* The UPDATE of the statuses takes effect; `others` notes, for observation
\* only, the senders of the rows it changed.
MarkReadStatus(t) ==
  /\ UNCHANGED reqs
  /\ tasks[t].kind = "mark_read" /\ tasks[t].pc = "status"
  /\ messages' = StatusWrite(MarkReadTargets(tasks[t].conv, tasks[t].mid, tasks[t].user), "read")
  /\ tasks' = SetTask(t, [tasks[t] EXCEPT !.pc = "notify",
       !.others = {messages[m].sender :
                     m \in MarkReadTargets(tasks[t].conv, tasks[t].mid, tasks[t].user)}])
  /\ out' = NoOut
  /\ UNCHANGED <<calls, now, participants, lastRead, receipts, isOnline, connectedUsers,
                 userSockets, socks, hist>>

\* Faulty variant: the SELECT without DISTINCT, one row per message.
AffectedSenders_NoDistinct(c, mid, u) ==
  LET ids == SortedSeq({x \in DOMAIN messages :
                 messages[x].conv = c /\ x <= mid /\ messages[x].sender # u})
  IN [i \in DOMAIN ids |-> messages[ids[i]].sender]

\* Faulty variant: the SELECT without `sender_id != ?`.
AffectedSenders_NoSenderFilter(c, mid, u) ==
  SortedSeq({messages[m].sender : m \in {x \in DOMAIN messages :
     messages[x].conv = c /\ x <= mid}})

\* SELECT DISTINCT sender_id FROM messages WHERE conversation_id = ? AND
\* id <= ? AND sender_id != ?
AffectedSenders(c, mid, u) ==
  SortedSeq({messages[m].sender : m \in {x \in DOMAIN messages :
     messages[x].conv = c /\ x <= mid /\ messages[x].sender # u}})

\* for (const row of affectedSenders) ... io.to(senderSocketId).emit(...)
MarkReadEvents(c, mid, u) ==
  LET rows == AffectedSenders(c, mid, u)
      on == SelectSeq(rows, LAMBDA a : connectedUsers[a] # None)
  IN [i \in DOMAIN on |->
        Event(connectedUsers[on[i]], "message_status_update", c, mid, "read", u)]

MarkReadNotify(t) ==
  /\ UNCHANGED reqs
  /\ tasks[t].kind = "mark_read" /\ tasks[t].pc = "notify"
  /\ tasks' = SetTask(t, IdleTask)
  /\ out' = [NoOut EXCEPT !.ev = MarkReadEvents(tasks[t].conv, tasks[t].mid, tasks[t].user),
             !.ack = <<Ack(tasks[t].sock, "mark_read", TRUE)>>,
             !.ackAt = Len(MarkReadEvents(tasks[t].conv, tasks[t].mid, tasks[t].user))]
  /\ UNCHANGED <<dbVars, connectedUsers, userSockets, socks, hist>>

\* ------------------------------------- POST /api/messages/:messageId/read
\* The SELECT of the message and the participant check: 404 for an unknown
\* id, a success answer without any write for one's own message, 403 for a
\* non-participant.  (conversation_id and sender_id of a row never change, so
\* the two reads are one step.)
RestReadStart(u, mid) ==
  /\ Request
  /\ IF mid \in DOMAIN messages /\ messages[mid].sender # u
          /\ IsParticipant(messages[mid].conv, u)
     THEN /\ \E t \in Slots :
               /\ FreeSlot(t)
               /\ tasks' = SetTask(t, Task("rest_read", "receipt", None, u,
                                           messages[mid].conv, mid))
          /\ out' = NoOut
     ELSE /\ out' = [NoOut EXCEPT !.ack =
               <<Ack(u, "rest_read", mid \in DOMAIN messages /\ messages[mid].sender = u)>>]
          /\ UNCHANGED tasks
  /\ UNCHANGED <<dbVars, connectedUsers, userSockets, socks, hist>>

RestReadReceipt(t) ==
  /\ UNCHANGED reqs
  /\ tasks[t].kind = "rest_read" /\ tasks[t].pc = "receipt"
  /\ receipts' = ReceiptWrite(tasks[t].mid, tasks[t].user)
  /\ tasks' = SetTask(t, [tasks[t] EXCEPT !.pc = "watermark"])
  /\ out' = NoOut
  /\ UNCHANGED <<calls, now, participants, lastRead, messages, isOnline, connectedUsers,
                 userSockets, socks, hist>>

RestReadWatermark(t) ==
  /\ UNCHANGED reqs
  /\ tasks[t].kind = "rest_read" /\ tasks[t].pc = "watermark"
  /\ lastRead' = WatermarkWrite(tasks[t].conv, tasks[t].user, tasks[t].mid)
  /\ tasks' = SetTask(t, [tasks[t] EXCEPT !.pc = "status"])
  /\ out' = NoOut
  /\ UNCHANGED <<calls, now, participants, messages, receipts, isOnline, connectedUsers,
                 userSockets, socks, hist>>

\* UPDATE messages SET status = 'read' WHERE id = ? AND sender_id != ?
RestReadTargets(mid, u) ==
  {m \in DOMAIN messages : m = mid /\ messages[m].sender # u}

RestReadStatus(t) ==
  /\ UNCHANGED reqs
  /\ tasks[t].kind = "rest_read" /\ tasks[t].pc = "status"
  /\ messages' = StatusWrite(RestReadTargets(tasks[t].mid, tasks[t].user), "read")
  /\ tasks' = SetTask(t, IdleTask)
  /\ out' = [NoOut EXCEPT !.ack = <<Ack(tasks[t].user, "rest_read", TRUE)>>]
  /\ UNCHANGED <<calls, now, participants, lastRead, receipts, isOnline, connectedUsers,
                 userSockets, socks, hist>>

\* ------------------------------------- PUT /api/conversations/:id/read
\* SELECT id FROM messages WHERE conversation_id = ? ORDER BY id DESC LIMIT 1
ConvMessages(c) == {m \in DOMAIN messages : messages[m].conv = c}

\* The last message of the conversation is looked up; an empty conversation is
\* answered with success at once.  There is no participant check.
PutReadStart(u, c) ==
  /\ Request
  /\ IF ConvMessages(c) # {}
     THEN /\ \E t \in Slots :
               /\ FreeSlot(t)
               /\ tasks' = SetTask(t, Task("put_read", "watermark", None, u, c,
                                           SetMax(ConvMessages(c))))
          /\ out' = NoOut
     ELSE /\ out' = [NoOut EXCEPT !.ack = <<Ack(u, "put_read", TRUE)>>]
          /\ UNCHANGED tasks
  /\ UNCHANGED <<dbVars, connectedUsers, userSockets, socks, hist>>

\* UPDATE conversation_participants SET last_read_message_id = (last id)
PutReadWatermark(t) ==
  /\ UNCHANGED reqs
  /\ tasks[t].kind = "put_read" /\ tasks[t].pc = "watermark"
  /\ lastRead' = WatermarkWrite(tasks[t].conv, tasks[t].user, tasks[t].mid)
  /\ tasks' = SetTask(t, [tasks[t] EXCEPT !.pc = "receipts"])
  /\ out' = NoOut
  /\ UNCHANGED <<calls, now, participants, messages, receipts, isOnline, connectedUsers,
                 userSockets, socks, hist>>

\* INSERT IGNORE INTO message_read_receipts SELECT id, ? FROM messages WHERE
\* conversation_id = ? AND sender_id != ?; then the success response.  No
\* message status is written and nothing is emitted.
PutReadReceipts(t) ==
  /\ UNCHANGED reqs
  /\ tasks[t].kind = "put_read" /\ tasks[t].pc = "receipts"
  /\ receipts' = receipts \cup
       {<<m, tasks[t].user>> : m \in {x \in ConvMessages(tasks[t].conv) :
                                        messages[x].sender # tasks[t].user}}
  /\ tasks' = SetTask(t, IdleTask)
  /\ out' = [NoOut EXCEPT !.ack = <<Ack(tasks[t].user, "put_read", TRUE)>>]
  /\ UNCHANGED <<calls, now, participants, lastRead, messages, isOnline, connectedUsers,
                 userSockets, socks, hist>>

\* ------------------------------------- POST /api/messages/:conversationId
\* The participant check: 403 for a non-participant, otherwise the INSERT is
\* awaited.
RestSendStart(u, c) ==
  /\ Request
  /\ IF IsParticipant(c, u)
     THEN /\ Len(messages) + InsertsInFlight < MaxMsgs
          /\ \E t \in Slots :
               /\ FreeSlot(t)
               /\ tasks' = SetTask(t, [Task("rest_send", "insert", None, u, c, None)
                                          EXCEPT !.seq = reqs + 1])
          /\ out' = NoOut
     ELSE /\ out' = [NoOut EXCEPT !.ack = <<Ack(u, "rest_send", FALSE)>>]
          /\ UNCHANGED tasks
  /\ UNCHANGED <<dbVars, connectedUsers, userSockets, socks, hist>>

\* INSERT INTO messages ... 'sent'; the SELECT of the created row is awaited.
RestSendInsert(t) ==
  /\ UNCHANGED reqs
  /\ tasks[t].kind = "rest_send" /\ tasks[t].pc = "insert"
  /\ messages' = Append(messages, [conv |-> tasks[t].conv, sender |-> tasks[t].user,
                                   status |-> "sent", deleted |-> FALSE])
  /\ tasks' = SetTask(t, [tasks[t] EXCEPT !.pc = "respond", !.mid = Len(messages) + 1])
  /\ out' = NoOut
  /\ UNCHANGED <<calls, now, participants, lastRead, receipts, isOnline, connectedUsers,
                 userSockets, socks, hist>>

\* The row is read back and the 201 response sent; the presence registry is
\* not consulted, no status is written and nothing is emitted.
RestSendRespond(t) ==
  /\ UNCHANGED reqs
  /\ tasks[t].kind = "rest_send" /\ tasks[t].pc = "respond"
  /\ tasks' = SetTask(t, IdleTask)
  /\ out' = [NoOut EXCEPT !.ack = <<Ack(tasks[t].user, "rest_send", TRUE)>>]
  /\ UNCHANGED <<dbVars, connectedUsers, userSockets, socks, hist>>

\* ------------------------------------------ DELETE /api/messages/:messageId
\* SELECT ... WHERE id = ? AND is_deleted = FALSE, the sender check, then
\* UPDATE messages SET is_deleted = TRUE.  (The UPDATE is idempotent and reads
\* nothing, so the check and the write are one step.)
DeleteMessage(u, mid) ==
  /\ Request
  /\ mid \in DOMAIN messages
  /\ ~messages[mid].deleted
  /\ messages[mid].sender = u
  /\ messages' = [messages EXCEPT ![mid].deleted = TRUE]
  /\ out' = [NoOut EXCEPT !.ack = <<Ack(u, "delete_message", TRUE)>>]
  /\ UNCHANGED <<calls, now, participants, lastRead, receipts, isOnline, connectedUsers,
                 userSockets, socks, tasks, hist>>

\* ------------------- DELETE /api/conversations/:id/participants/:userId
\* conversation_participants.is_admin: user 1 created the conversations and is
\* their admin for as long as it has a row.
IsAdmin(c, u) == IsParticipant(c, u) /\ u = 1

\* The requester's row is read (403 without one, 403 for removing somebody
\* else without is_admin), then DELETE FROM conversation_participants.  No
\* socket is told and no room is left.  (The DELETE reads nothing, so the
\* check and the write are one step.)
RemoveParticipant(u, c, target) ==
  /\ Request
  /\ IF IsParticipant(c, u) /\ (u = target \/ IsAdmin(c, u))
     THEN /\ participants' = participants \ {<<c, target>>}
          /\ out' = [NoOut EXCEPT !.ack = <<Ack(u, "remove_participant", TRUE)>>]
     ELSE /\ participants' = participants
          /\ out' = [NoOut EXCEPT !.ack = <<Ack(u, "remove_participant", FALSE)>>]
  /\ UNCHANGED <<calls, now, lastRead, messages, receipts, isOnline, connectedUsers,
                 userSockets, socks, tasks, hist>>

\* ---------------------------------------------------------------- Next
\* Connections opened so far, and handlers in flight.
Conns == Cardinality({s \in Sockets : socks[s].st # "free"})
Busy == Cardinality({t \in Slots : tasks[t].kind # "idle"})

\* The delivery state machine: at most MaxConns connections, at most MaxBusy
\* event handlers or REST requests in flight; the pending-delivery sweeps of
\* the connections interleave with them and with one another.
Next ==
  \/ \E u \in Users : Conns < MaxConns /\ Connect(u)
  \/ \E s \in Sockets : SweepSelect(s)
  \/ \E s \in Sockets : SweepUpdate(s)
  \/ \E s \in Sockets, c \in Convs : Busy < MaxBusy /\ SendStart(s, c)
  \/ \E t \in Slots : SendInsert(t)
  \/ \E t \in Slots : SendOthers(t)
  \/ \E t \in Slots : SendUpdate(t)
  \/ \E t \in Slots : SendFinal(t)
  \/ \E s \in Sockets, c \in Convs, mid \in MsgIds : Busy < MaxBusy /\ MarkReadStart(s, c, mid)
  \/ \E t \in Slots : MarkReadReceipt(t)
  \/ \E t \in Slots : MarkReadStatus(t)
  \/ \E t \in Slots : MarkReadNotify(t)
  \/ \E u \in Users, mid \in MsgIds : Busy < MaxBusy /\ RestReadStart(u, mid)
  \/ \E t \in Slots : RestReadReceipt(t)
  \/ \E t \in Slots : RestReadWatermark(t)
  \/ \E t \in Slots : RestReadStatus(t)
  \/ \E u \in Users, mid \in MsgIds : DeleteMessage(u, mid)

Spec == Init /\ [][Next]_vars

\* The presence registry and the persisted online flag alone.
NextPresence ==
  \/ \E u \in Users : Connect(u)
  \/ \E s \in Sockets : OnlineWrite(s)
  \/ \E s \in Sockets : Disconnect(s)
  \/ \E s \in Sockets : DisconnectWrite(s)

SpecPresence == Init /\ [][NextPresence]_vars

\* Connection attempts with any token, and the connection lifecycle.
NextAuth ==
  \/ \E tok \in Tokens : Conns < MaxConns /\ ConnectAttempt(tok)
  \/ \E s \in Sockets : OnlineWrite(s)
  \/ \E s \in Sockets : JoinRooms(s)
  \/ \E s \in Sockets : SweepSelect(s)
  \/ \E s \in Sockets : Disconnect(s)
  \/ \E s \in Sockets : DisconnectWrite(s)

SpecAuth == Init /\ [][NextAuth]_vars

\* Sends and the sweeps of up to MaxSockets connections.
NextSweep ==
  \/ \E u \in Users : Connect(u)
  \/ \E s \in Sockets : SweepSelect(s)
  \/ \E s \in Sockets : SweepUpdate(s)
  \/ \E s \in Sockets, c \in Convs : Busy < MaxBusy /\ SendStart(s, c)
  \/ \E t \in Slots : SendInsert(t)
  \/ \E t \in Slots : SendOthers(t)
  \/ \E t \in Slots : SendUpdate(t)
  \/ \E t \in Slots : SendFinal(t)

SpecSweep == Init /\ [][NextSweep]_vars

\* Rooms: sockets join the rooms of their user's conversations; messages and
\* typing indicators are broadcast to them.
NextRoom ==
  \/ \E u \in Users : Conns < MaxConns /\ Connect(u)
  \/ \E s \in Sockets : JoinRooms(s)
  \/ \E s \in Sockets : SweepSelect(s)
  \/ \E s \in Sockets : SweepUpdate(s)
  \/ \E s \in Sockets, c \in Convs : Busy < MaxBusy /\ SendStart(s, c)
  \/ \E t \in Slots : SendInsert(t)
  \/ \E t \in Slots : SendOthers(t)
  \/ \E t \in Slots : SendUpdate(t)
  \/ \E t \in Slots : SendFinal(t)
  \/ \E s \in Sockets, c \in Convs : Typing(s, c)

SpecRoom == Init /\ [][NextRoom]_vars

\* The REST message routes next to connects and their sweeps.
NextRest ==
  \/ \E u \in Users : Conns < MaxConns /\ Connect(u)
  \/ \E s \in Sockets : SweepSelect(s)
  \/ \E s \in Sockets : SweepUpdate(s)
  \/ \E u \in Users, c \in Convs : Busy < MaxBusy /\ RestSendStart(u, c)
  \/ \E t \in Slots : RestSendInsert(t)
  \/ \E t \in Slots : RestSendRespond(t)
  \/ \E u \in Users, m \in MsgIds : Busy < MaxBusy /\ RestReadStart(u, m)
  \/ \E t \in Slots : RestReadReceipt(t)
  \/ \E t \in Slots : RestReadWatermark(t)
  \/ \E t \in Slots : RestReadStatus(t)

SpecRest == Init /\ [][NextRest]_vars

\* Membership changing under connected sockets: rooms are joined once, then
\* participants are removed while messages and typing indicators are broadcast.
NextMember ==
  \/ \E u \in Users : Conns < MaxConns /\ Connect(u)
  \/ \E s \in Sockets : JoinRooms(s)
  \/ \E u \in Users, c \in Convs, target \in Users : RemoveParticipant(u, c, target)
  \/ \E s \in Sockets, c \in Convs : Busy < MaxBusy /\ SendStart(s, c)
  \/ \E t \in Slots : SendInsert(t)
  \/ \E t \in Slots : SendOthers(t)
  \/ \E t \in Slots : SendUpdate(t)
  \/ \E t \in Slots : SendFinal(t)
  \/ \E s \in Sockets, c \in Convs : Typing(s, c)

SpecMember == Init /\ [][NextMember]_vars

\* Reading: messages are sent and acknowledged by socket mark_read, by POST
\* /messages/:messageId/read and by PUT /conversations/:id/read, next to the
\* connect sweeps.
NextRead ==
  \/ \E u \in Users : Conns < MaxConns /\ Connect(u)
  \/ \E s \in Sockets : SweepSelect(s)
  \/ \E s \in Sockets : SweepUpdate(s)
  \/ \E s \in Sockets, c \in Convs : Busy < MaxBusy /\ SendStart(s, c)
  \/ \E t \in Slots : SendInsert(t)
  \/ \E t \in Slots : SendOthers(t)
  \/ \E t \in Slots : SendUpdate(t)
  \/ \E t \in Slots : SendFinal(t)
  \/ \E s \in Sockets, c \in Convs, mid \in MsgIds : Busy < MaxBusy /\ MarkReadStart(s, c, mid)
  \/ \E t \in Slots : MarkReadReceipt(t)
  \/ \E t \in Slots : MarkReadStatus(t)
  \/ \E t \in Slots : MarkReadNotify(t)
  \/ \E u \in Users, mid \in MsgIds : Busy < MaxBusy /\ RestReadStart(u, mid)
  \/ \E t \in Slots : RestReadReceipt(t)
  \/ \E t \in Slots : RestReadWatermark(t)
  \/ \E t \in Slots : RestReadStatus(t)
  \/ \E u \in Users, c \in Convs : Busy < MaxBusy /\ PutReadStart(u, c)
  \/ \E t \in Slots : PutReadWatermark(t)
  \/ \E t \in Slots : PutReadReceipts(t)

SpecRead == Init /\ [][NextRead]_vars

\* One message sent while its recipients connect and disconnect.
NextLive ==
  \/ \E u \in Users : Conns < MaxConns /\ Connect(u)
  \/ \E s \in Sockets : Disconnect(s)
  \/ \E s \in Sockets : SweepSelect(s)
  \/ \E s \in Sockets : SweepUpdate(s)
  \/ \E s \in Sockets, c \in Convs : Busy < MaxBusy /\ messages = <<>> /\ SendStart(s, c)
  \/ \E t \in Slots : SendInsert(t)
  \/ \E t \in Slots : SendOthers(t)
  \/ \E t \in Slots : SendUpdate(t)
  \/ \E t \in Slots : SendFinal(t)

\* The steps the server takes by itself: every awaited query resolves.
HandlerSteps ==
  \/ \E s \in Sockets : SweepSelect(s)
  \/ \E s \in Sockets : SweepUpdate(s)
  \/ \E t \in Slots : SendInsert(t)
  \/ \E t \in Slots : SendOthers(t)
  \/ \E t \in Slots : SendUpdate(t)
  \/ \E t \in Slots : SendFinal(t)

\* Persistence calls succeed and handlers run to completion; clients are under
\* no obligation to connect, disconnect or send.
SpecLive == Init /\ [][NextLive]_vars /\ WF_vars(HandlerSteps)

\* Several send_message handlers in flight at once.
NextOrder ==
  \/ \E u \in Users : Conns < MaxConns /\ Connect(u)
  \/ \E s \in Sockets : JoinRooms(s)
  \/ \E s \in Sockets, c \in Convs : SendStart(s, c)
  \/ \E t \in Slots : SendInsert(t)
  \/ \E t \in Slots : SendOthers(t)
  \/ \E t \in Slots : SendUpdate(t)
  \/ \E t \in Slots : SendFinal(t)

SpecOrder == Init /\ [][NextOrder]_vars

\* Sends with push dispatch, the Expo client free to throw while chunking.
NextPush ==
  \/ \E u \in Users : Conns < MaxConns /\ Connect(u)
  \/ \E s \in Sockets : Disconnect(s)
  \/ \E s \in Sockets, c \in Convs : Busy < MaxBusy /\ SendStart(s, c)
  \/ \E t \in Slots : SendInsert(t)
  \/ \E t \in Slots : SendOthers(t)
  \/ \E t \in Slots : SendUpdate(t)
  \/ \E t \in Slots : SendFinalPush(t)

SpecPush == Init /\ [][NextPush]_vars

\* ---------------------------------------------------------------- calls
\* The clock advances between any two steps.
Tick ==
  /\ now < MaxClock
  /\ now' = now + 1
  /\ out' = NoOut
  /\ UNCHANGED <<msgVars, calls, connectedUsers, userSockets, socks, tasks, reqs>>

NewCall(caller, callee) ==
  [caller |-> caller, callee |-> callee, status |-> "ongoing",
   started |-> now, ended |-> None, duration |-> 0]

\* io.to(connectedUsers.get(u)).emit(ev, {callId, ...}) if the user has an entry.
CallEvent(u, ev, id, by) ==
  IF connectedUsers[u] # None
  THEN <<Event(connectedUsers[u], ev, None, id, "", by)>>
  ELSE <<>>

\* call_initiate: INSERT INTO calls ... 'ongoing', incoming_call to the callee's
\* registered socket, success acknowledgment.
CallInitiate(s, callee) ==
  /\ Request
  /\ Open(s)
  /\ Len(calls) < MaxCalls
  /\ calls' = Append(calls, NewCall(socks[s].user, callee))
  /\ out' = [NoOut EXCEPT !.ev = CallEvent(callee, "incoming_call", Len(calls) + 1, socks[s].user),
             !.ack = <<Ack(s, "call_initiate", TRUE)>>,
             !.ackAt = Len(CallEvent(callee, "incoming_call", Len(calls) + 1, socks[s].user))]
  /\ UNCHANGED <<msgVars, now, connectedUsers, userSockets, socks, tasks>>

\* POST /api/calls/initiate: the callee exists, INSERT INTO calls; no event.
RestCallInitiate(u, callee) ==
  /\ Request
  /\ Len(calls) < MaxCalls
  /\ calls' = Append(calls, NewCall(u, callee))
  /\ out' = [NoOut EXCEPT !.ack = <<Ack(u, "rest_call_initiate", TRUE)>>]
  /\ UNCHANGED <<msgVars, now, connectedUsers, userSockets, socks, tasks>>

\* The socket handlers' SELECT * FROM calls WHERE id = ?
CallFound(id, u) == id \in DOMAIN calls

\* call_answer / call_reject / call_end: the SELECT resolves; an unknown id is
\* answered "Call not found", otherwise the UPDATE is awaited with the row
\* that was read (const call = calls[0]) in hand.  call_end computes
\* durationSeconds from that row.
CallStart(s, id, kind) ==
  /\ Request
  /\ Open(s)
  /\ IF CallFound(id, socks[s].user)
     THEN /\ \E t \in Slots :
               /\ FreeSlot(t)
               /\ tasks' = SetTask(t, [Task(kind, "update", s, socks[s].user, None, id)
                              EXCEPT !.seen = calls[id].status,
                                     !.val = IF kind = "call_end" /\ calls[id].status = "answered"
                                             THEN now - calls[id].started ELSE 0])
          /\ out' = NoOut
     ELSE /\ out' = [NoOut EXCEPT !.ack = <<Ack(s, kind, FALSE)>>]
          /\ UNCHANGED tasks
  /\ UNCHANGED <<msgVars, calls, now, connectedUsers, userSockets, socks>>

CallAnswerStart(s, id) == CallStart(s, id, "call_answer")
CallRejectStart(s, id) == CallStart(s, id, "call_reject")
CallEndStart(s, id) == CallStart(s, id, "call_end")

\* The clock reading at which the answer UPDATE took effect, kept in hist (the
\* calls table has no column for it).
NoteAnswered(h, id) == [h EXCEPT !.answered[id] = now]

\* UPDATE calls SET status = "answered" WHERE id = ?
AnswerWrite(id) == [calls EXCEPT ![id].status = "answered"]
\* UPDATE calls SET status = "rejected", ended_at = NOW() WHERE id = ?
RejectWrite(id) == [calls EXCEPT ![id].status = "rejected", ![id].ended = now]
\* UPDATE calls SET status = "missed", ended_at = NOW() WHERE id = ?
MissWrite(id) == [calls EXCEPT ![id].status = "missed", ![id].ended = now]
\* UPDATE calls SET status = "ended", ended_at = NOW(), duration_seconds = ? WHERE id = ?
EndWrite(id, d) == [calls EXCEPT ![id].status = "ended", ![id].ended = now,
                                 ![id].duration = d]

\* call_answer after the UPDATE: call_answered to the caller, success.
CallAnswerUpdate(t) ==
  /\ UNCHANGED reqs
  /\ tasks[t].kind = "call_answer" /\ tasks[t].pc = "update"
  /\ calls' = AnswerWrite(tasks[t].mid)
  /\ tasks' = SetTask(t, IdleTask)
  /\ out' = [NoOut EXCEPT !.ev = CallEvent(calls[tasks[t].mid].caller, "call_answered",
                              tasks[t].mid, tasks[t].user),
             !.ack = <<Ack(tasks[t].sock, "call_answer", TRUE)>>,
             !.ackAt = Len(CallEvent(calls[tasks[t].mid].caller, "call_answered",
                              tasks[t].mid, tasks[t].user))]
  /\ hist' = NoteAnswered(hist, tasks[t].mid)
  /\ UNCHANGED <<chatVars, now, connectedUsers, userSockets, socks>>

\* call_reject after the UPDATE: call_rejected to the caller, success.
CallRejectUpdate(t) ==
  /\ UNCHANGED reqs
  /\ tasks[t].kind = "call_reject" /\ tasks[t].pc = "update"
  /\ calls' = RejectWrite(tasks[t].mid)
  /\ tasks' = SetTask(t, IdleTask)
  /\ out' = [NoOut EXCEPT !.ev = CallEvent(calls[tasks[t].mid].caller, "call_rejected",
                              tasks[t].mid, tasks[t].user),
             !.ack = <<Ack(tasks[t].sock, "call_reject", TRUE)>>,
             !.ackAt = Len(CallEvent(calls[tasks[t].mid].caller, "call_rejected",
                              tasks[t].mid, tasks[t].user))]
  /\ UNCHANGED <<msgVars, now, connectedUsers, userSockets, socks>>

\* call.caller_id === socket.userId ? call.callee_id : call.caller_id
OtherParty(id, u) == IF calls[id].caller = u THEN calls[id].callee ELSE calls[id].caller

\* call_end after the UPDATE: call_ended to the other party, success.
CallEndUpdate(t) ==
  /\ UNCHANGED reqs
  /\ tasks[t].kind = "call_end" /\ tasks[t].pc = "update"
  /\ calls' = EndWrite(tasks[t].mid, tasks[t].val)
  /\ tasks' = SetTask(t, IdleTask)
  /\ out' = [NoOut EXCEPT !.ev = CallEvent(OtherParty(tasks[t].mid, tasks[t].user), "call_ended",
                              tasks[t].mid, tasks[t].user),
             !.ack = <<Ack(tasks[t].sock, "call_end", TRUE)>>,
             !.ackAt = Len(CallEvent(OtherParty(tasks[t].mid, tasks[t].user), "call_ended",
                              tasks[t].mid, tasks[t].user))]
  /\ UNCHANGED <<msgVars, now, connectedUsers, userSockets, socks>>

\* PUT /api/calls/:callId/answer, /reject, /miss:
\* SELECT * FROM calls WHERE id = ? AND callee_id = ? AND status = "ongoing"
RestCalleeFound(id, u) ==
  id \in DOMAIN calls /\ calls[id].callee = u /\ calls[id].status = "ongoing"

\* PUT /api/calls/:callId/end: SELECT * FROM calls WHERE id = ? AND
\* (caller_id = ? OR callee_id = ?) AND status IN ("ongoing", "answered")
RestEndFound(id, u) ==
  /\ id \in DOMAIN calls
  /\ calls[id].caller = u \/ calls[id].callee = u
  /\ calls[id].status \in {"ongoing", "answered"}

\* The REST call routes: the guarded SELECT resolves; no row is answered 404,
\* otherwise the UPDATE is awaited.
RestCallStart(u, id, kind) ==
  /\ Request
  /\ IF (IF kind = "rest_call_end" THEN RestEndFound(id, u) ELSE RestCalleeFound(id, u))
     THEN /\ \E t \in Slots :
               /\ FreeSlot(t)
               /\ tasks' = SetTask(t, [Task(kind, "update", None, u, None, id)
                              EXCEPT !.seen = calls[id].status,
                                     !.val = IF kind = "rest_call_end" /\ calls[id].status = "answered"
                                             THEN now - calls[id].started ELSE 0])
          /\ out' = NoOut
     ELSE /\ out' = [NoOut EXCEPT !.ack = <<Ack(u, kind, FALSE)>>]
          /\ UNCHANGED tasks
  /\ UNCHANGED <<msgVars, calls, now, connectedUsers, userSockets, socks>>

RestAnswerStart(u, id) == RestCallStart(u, id, "rest_call_answer")
RestRejectStart(u, id) == RestCallStart(u, id, "rest_call_reject")
RestMissStart(u, id) == RestCallStart(u, id, "rest_call_miss")
RestEndStart(u, id) == RestCallStart(u, id, "rest_call_end")

\* The REST routes after the UPDATE: the success answer; nothing is emitted.
RestCallUpdate(t, kind, write) ==
  /\ UNCHANGED reqs
  /\ tasks[t].kind = kind /\ tasks[t].pc = "update"
  /\ calls' = write
  /\ tasks' = SetTask(t, IdleTask)
  /\ out' = [NoOut EXCEPT !.ack = <<Ack(tasks[t].user, kind, TRUE)>>]
  /\ hist' = IF kind = "rest_call_answer" THEN NoteAnswered(hist, tasks[t].mid) ELSE hist
  /\ UNCHANGED <<chatVars, now, connectedUsers, userSockets, socks>>

RestAnswerUpdate(t) == RestCallUpdate(t, "rest_call_answer", AnswerWrite(tasks[t].mid))
RestRejectUpdate(t) == RestCallUpdate(t, "rest_call_reject", RejectWrite(tasks[t].mid))
RestMissUpdate(t) == RestCallUpdate(t, "rest_call_miss", MissWrite(tasks[t].mid))
RestEndUpdate(t) == RestCallUpdate(t, "rest_call_end", EndWrite(tasks[t].mid, tasks[t].val))

\* webrtc_offer / webrtc_answer / webrtc_ice_candidate: synchronous; the
\* payload is passed on to the socket registered for targetUserId, if any,
\* with senderId: socket.userId.  No table is read, nothing is acknowledged.
WebrtcKinds == {"webrtc_offer", "webrtc_answer", "webrtc_ice_candidate"}

WebrtcRelay(s, target, kind) ==
  /\ Request
  /\ Open(s)
  /\ out' = [NoOut EXCEPT !.ev =
       IF connectedUsers[target] # None
       THEN <<Event(connectedUsers[target], kind, None, None, "", socks[s].user)>>
       ELSE <<>>]
  /\ UNCHANGED <<dbVars, connectedUsers, userSockets, socks, tasks, hist>>

NextCall ==
  \/ \E u \in Users : Conns < MaxConns /\ Connect(u)
  \/ \E s \in Sockets : Disconnect(s)
  \/ \E s \in Sockets, u \in Users : CallInitiate(s, u)
  \/ \E u \in Users, v \in Users : RestCallInitiate(u, v)
  \/ \E s \in Sockets, id \in CallIds : CallAnswerStart(s, id)
  \/ \E s \in Sockets, id \in CallIds : CallRejectStart(s, id)
  \/ \E s \in Sockets, id \in CallIds : CallEndStart(s, id)
  \/ \E t \in Slots : CallAnswerUpdate(t)
  \/ \E t \in Slots : CallRejectUpdate(t)
  \/ \E t \in Slots : CallEndUpdate(t)
  \/ \E u \in Users, id \in CallIds : RestAnswerStart(u, id)
  \/ \E u \in Users, id \in CallIds : RestRejectStart(u, id)
  \/ \E u \in Users, id \in CallIds : RestMissStart(u, id)
  \/ \E u \in Users, id \in CallIds : RestEndStart(u, id)
  \/ \E t \in Slots : RestAnswerUpdate(t)
  \/ \E t \in Slots : RestRejectUpdate(t)
  \/ \E t \in Slots : RestMissUpdate(t)
  \/ \E t \in Slots : RestEndUpdate(t)

SpecCall == Init /\ [][NextCall]_vars

\* ------------------------------------------------- incomplete payloads
\* A field the client left out of the payload is undefined after the
\* destructuring; None stands for it.
\* send_message without conversationId: `if (!conversationId)` answers
\* "Conversation ID required" before any query.
SendMalformed(s) ==
  /\ Request
  /\ Open(s)
  /\ out' = [NoOut EXCEPT !.ack = <<Ack(s, "send_message", FALSE)>>]
  /\ UNCHANGED <<dbVars, connectedUsers, userSockets, socks, tasks, hist>>

\* The events whose handlers destructure the payload and pass it to db.query
\* unexamined.
UncheckedKinds == {"mark_read", "call_initiate", "call_answer", "call_reject", "call_end"}

\* The payload lacks a field the event needs: conversationId or messageId for
\* mark_read; calleeId or type (m) for call_initiate; callId (m) for
\* call_answer, call_reject and call_end.
Incomplete(kind, c, m) ==
  IF kind = "mark_read" THEN c = None \/ m = None ELSE c = None /\ m = None

\* mark_read, call_initiate, call_answer, call_reject, call_end with an
\* incomplete payload: the handler's first statement after the destructuring
\* is `await db.query(...)` with the undefined value among the parameters.
MalformedStart(s, kind, c, m) ==
  /\ Request
  /\ Open(s)
  /\ Incomplete(kind, c, m)
  /\ \E t \in Slots :
       /\ FreeSlot(t)
       /\ tasks' = SetTask(t, Task(kind, "bind", s, socks[s].user, c, m))
  /\ out' = NoOut
  /\ UNCHANGED <<dbVars, connectedUsers, userSockets, socks, hist>>

\* pool.execute rejects a parameter list that holds undefined; query rethrows
\* and the handler's catch answers with a failure.  No row is touched.
MalformedReject(t) ==
  /\ UNCHANGED reqs
  /\ tasks[t].pc = "bind"
  /\ tasks' = SetTask(t, IdleTask)
  /\ out' = [NoOut EXCEPT !.ack = <<Ack(tasks[t].sock, tasks[t].kind, FALSE)>>]
  /\ UNCHANGED <<dbVars, connectedUsers, userSockets, socks, hist>>

\* Events with incomplete payloads on open connections.
NextValidate ==
  \/ \E u \in Users : Conns < MaxConns /\ Connect(u)
  \/ \E s \in Sockets : Disconnect(s)
  \/ \E s \in Sockets : SendMalformed(s)
  \/ \E s \in Sockets, kind \in UncheckedKinds, c \in Convs \cup {None}, m \in MsgIds \cup {None} :
       MalformedStart(s, kind, c, m)
  \/ \E t \in Slots : MalformedReject(t)

SpecValidate == Init /\ [][NextValidate]_vars

\* Signaling: connections, calls coming into being, and the WebRTC relays.
NextRelay ==
  \/ \E u \in Users : Conns < MaxConns /\ Connect(u)
  \/ \E s \in Sockets : Disconnect(s)
  \/ \E s \in Sockets, u \in Users : CallInitiate(s, u)
  \/ \E u \in Users, v \in Users : RestCallInitiate(u, v)
  \/ \E s \in Sockets, u \in Users, kind \in WebrtcKinds : WebrtcRelay(s, u, kind)

SpecRelay == Init /\ [][NextRelay]_vars

\* Calls against the clock: initiate, answer and end, with time passing
\* between any two steps.
NextClock ==
  \/ Tick
  \/ \E u \in Users : Conns < MaxConns /\ Connect(u)
  \/ \E s \in Sockets, u \in Users : CallInitiate(s, u)
  \/ \E u \in Users, v \in Users : RestCallInitiate(u, v)
  \/ \E s \in Sockets, id \in CallIds : CallAnswerStart(s, id)
  \/ \E s \in Sockets, id \in CallIds : CallEndStart(s, id)
  \/ \E t \in Slots : CallAnswerUpdate(t)
  \/ \E t \in Slots : CallEndUpdate(t)
  \/ \E u \in Users, id \in CallIds : RestAnswerStart(u, id)
  \/ \E u \in Users, id \in CallIds : RestEndStart(u, id)
  \/ \E t \in Slots : RestAnswerUpdate(t)
  \/ \E t \in Slots : RestEndUpdate(t)

SpecClock == Init /\ [][NextClock]_vars

\* ================================================================ properties
\* Task t takes a step (it starts, moves on or completes) as a handler of `kind`.
HandlerStep(t, kind) ==
  /\ tasks'[t] # tasks[t]
  /\ tasks[t].kind = kind \/ (tasks[t].kind = "idle" /\ tasks'[t].kind = kind)

\* The handler of task t: the record while it is in flight.
Handler(t) == IF tasks[t].kind = "idle" THEN tasks'[t] ELSE tasks[t]

\* Task t completes in this step.
Completes(t, kind) == tasks[t].kind = kind /\ tasks'[t].kind = "idle"

OwnSockets(u) == {s \in Sockets : socks[s].user = u}

\* C1: over every interleaving of send_message, the connect sweep, socket
\* mark_read and REST mark-read, the persisted status of a message only moves
\* forward along sent -> delivered -> read; no step lowers it.
C1_StatusNeverRegresses ==
  [][\A m \in DOMAIN messages :
       Rank(messages'[m].status) >= Rank(messages[m].status)]_vars

\* C2: after user U connected on H1 and then on H2 the registry resolves U to
\* H2, and the disconnect of a socket that is not the registered one (H1)
\* leaves U's entry as it is.
C2_StaleDisconnectKeepsEntry ==
  [][\A s \in Sockets :
       (Open(s) /\ socks'[s].st = "closed" /\ connectedUsers[socks[s].user] # s)
         => connectedUsers'[socks[s].user] = connectedUsers[socks[s].user]]_vars

\* C3: a message whose send found every recipient absent is notified to its
\* sender as delivered at most once (exactly once when recipients connect),
\* however many recipients connect and however their sweeps interleave.
C3_DeliveredNotifiedOnce ==
  \A m \in hist.offline : hist.dnotes[m] <= 1

\* C4: the socket mark_read(c, M) of user B sets to read every non-deleted
\* message of c with id <= M authored by another user, and leaves the status
\* of every message with id > M, of another conversation or authored by B as
\* it was; the handler adds and removes no message.
C4_MarkReadEffect ==
  [][\A t \in Slots : HandlerStep(t, "mark_read") =>
       LET h == Handler(t) IN
         /\ DOMAIN messages' = DOMAIN messages
         /\ \A m \in DOMAIN messages :
              /\ (tasks[t].pc = "status" /\ messages[m].conv = h.conv /\ m <= h.mid
                    /\ messages[m].sender # h.user /\ ~messages[m].deleted)
                   => messages'[m].status = "read"
              /\ (m > h.mid \/ messages[m].conv # h.conv \/ messages[m].sender = h.user)
                   => messages'[m].status = messages[m].status]_vars

\* C4 witness: a mark_read has just written: a message of another author up
\* to M is read while a later message of the conversation is not.
C4_Witness ==
  \E t \in Slots :
    /\ tasks[t].kind = "mark_read" /\ tasks[t].pc = "notify"
    /\ \E m1, m2 \in DOMAIN messages :
         /\ messages[m1].conv = tasks[t].conv /\ m1 <= tasks[t].mid
         /\ messages[m1].sender # tasks[t].user /\ messages[m1].status = "read"
         /\ messages[m2].conv = tasks[t].conv /\ m2 > tasks[t].mid
         /\ messages[m2].sender # tasks[t].user /\ messages[m2].status # "read"

ReadUpdateTo(e, s, c, mid, by) ==
  /\ e.to = s /\ e.ev = "message_status_update" /\ e.status = "read"
  /\ e.conv = c /\ e.mid = mid /\ e.by = by

\* C5: when B acknowledges read up to M, a message of another user in the
\* conversation: the receipt INSERT leaves the receipt (M, B) in place and no
\* step removes a receipt, the status UPDATE leaves M read, and when the
\* handler completes it acknowledges success and the registered socket of each
\* distinct other author of a message up to M has been sent exactly one
\* message_status_update with status read and readBy = B, however many of its
\* messages were covered.
C5_ReadAcknowledged ==
  [][/\ receipts \subseteq receipts'
     /\ \A t \in Slots : HandlerStep(t, "mark_read") =>
          LET h == Handler(t)
              covered == {m \in DOMAIN messages :
                            messages[m].conv = h.conv /\ m <= h.mid /\ messages[m].sender # h.user}
          IN /\ (tasks[t].pc = "receipt" /\ h.mid \in covered)
                  => <<h.mid, h.user>> \in receipts'
             /\ (tasks[t].pc = "status" /\ h.mid \in covered)
                  => messages'[h.mid].status = "read"
             /\ Completes(t, "mark_read") =>
                  /\ \A a \in {messages[m].sender : m \in covered} :
                       connectedUsers[a] # None =>
                         Count(out'.ev, LAMBDA e : ReadUpdateTo(e, connectedUsers[a], h.conv,
                                                               h.mid, h.user)) = 1
                  /\ Len(out'.ack) = 1 /\ out'.ack[1].ok]_vars

\* C5 witness: a mark_read has just completed and notified an author two of
\* whose messages it covered.
C5_Witness ==
  /\ Len(out.ack) = 1 /\ out.ack[1].op = "mark_read" /\ out.ack[1].ok
  /\ \E i \in DOMAIN out.ev :
       /\ out.ev[i].ev = "message_status_update" /\ out.ev[i].status = "read"
       /\ <<out.ev[i].mid, out.ev[i].by>> \in receipts
       /\ Cardinality({m \in DOMAIN messages :
            /\ messages[m].conv = out.ev[i].conv /\ m <= out.ev[i].mid
            /\ connectedUsers[messages[m].sender] = out.ev[i].to
            /\ messages[m].status = "read"}) >= 2

\* C6: a mark_read of user B (socket event or REST route) never emits a
\* message_status_update with status read to a socket of B, and never changes
\* the status of a message authored by B.
C6_NoSelfRead ==
  [][\A t \in Slots : (HandlerStep(t, "mark_read") \/ HandlerStep(t, "rest_read")) =>
       LET h == Handler(t) IN
         /\ \A i \in DOMAIN out'.ev :
              (out'.ev[i].ev = "message_status_update" /\ out'.ev[i].status = "read")
                => out'.ev[i].to \notin OwnSockets(h.user)
         /\ \A m \in DOMAIN messages :
              messages[m].sender = h.user => messages'[m].status = messages[m].status]_vars

\* C6 witness: B's mark_read has just notified another author while B is
\* registered itself and has a message of its own within the acknowledged range.
C6_Witness ==
  \E i \in DOMAIN out.ev :
    /\ out.ev[i].ev = "message_status_update" /\ out.ev[i].status = "read"
    /\ connectedUsers[out.ev[i].by] # None
    /\ \E m \in DOMAIN messages :
         /\ messages[m].sender = out.ev[i].by /\ messages[m].conv = out.ev[i].conv
         /\ m <= out.ev[i].mid /\ messages[m].status # "read"

\* C7: once a message is flagged deleted no operation changes its status
\* (mark_read, REST mark-read, the sweep, send-time delivery), also when the
\* deletion lands between the sweep's SELECT and its UPDATE.
C7_DeletedFrozen ==
  [][\A m \in DOMAIN messages :
       messages[m].deleted => messages'[m].status = messages[m].status]_vars

\* C8: a socket event that targets a conversation and comes from a user who
\* is not a participant of it changes no persisted state (messages, statuses,
\* read receipts, watermarks) and emits nothing.
C8_OutsiderChangesNothing ==
  [][\A t \in Slots :
       ((HandlerStep(t, "send") \/ HandlerStep(t, "mark_read"))
          /\ ~IsParticipant(Handler(t).conv, Handler(t).user))
         => /\ messages' = messages /\ receipts' = receipts /\ lastRead' = lastRead
            /\ out'.ev = <<>>]_vars

CallEdges == {<<"ongoing", "answered">>, <<"ongoing", "rejected">>, <<"ongoing", "missed">>,
              <<"ongoing", "ended">>, <<"answered", "ended">>}

\* C9: over every interleaving of the socket call events and the REST call
\* routes a call's status changes only along ongoing->answered,
\* ongoing->rejected, ongoing->missed, ongoing->ended, answered->ended; ended,
\* rejected and missed are final.
C9_CallEdgesOnly ==
  [][\A k \in DOMAIN calls :
       calls'[k].status # calls[k].status
         => <<calls[k].status, calls'[k].status>> \in CallEdges]_vars

\* C10: an answer request (socket call_answer or PUT /calls/:id/answer) on a
\* call whose status is ended is answered with a failure, leaves the call
\* record unchanged and emits no call_answered.  The request is one whose
\* lookup read the call as ended and which finds it ended when it completes.
C10_AnswerEndedFails ==
  [][\A t \in Slots :
       ((Completes(t, "call_answer") \/ Completes(t, "rest_call_answer"))
          /\ tasks[t].seen = "ended" /\ calls[tasks[t].mid].status = "ended")
         => /\ calls' = calls
            /\ Len(out'.ack) = 1 /\ ~out'.ack[1].ok
            /\ \A i \in DOMAIN out'.ev : out'.ev[i].ev # "call_answered"]_vars

CalleeKinds == {"call_answer", "call_reject", "rest_call_answer", "rest_call_reject",
                "rest_call_miss"}
EndKinds == {"call_end", "rest_call_end"}

\* The acting user of call handler h may perform its transition: the callee
\* for answer, reject and miss, either party for end.
MayAct(h) ==
  IF h.kind \in CalleeKinds THEN calls[h.mid].callee = h.user
  ELSE calls[h.mid].caller = h.user \/ calls[h.mid].callee = h.user

\* C11: a call's status is changed by answer, reject or miss only when the
\* acting user is the callee and by end only when the acting user is the
\* caller or the callee; a request of any other user changes no call record
\* and emits no event.
C11_OnlyPartiesAct ==
  [][\A t \in Slots :
       (tasks[t].kind \in CalleeKinds \cup EndKinds /\ tasks'[t] # tasks[t]
          /\ ~MayAct(tasks[t]))
         => calls' = calls /\ out'.ev = <<>>]_vars

\* C12: when a call is ended the stored duration is 0 if the call is ended
\* from ongoing (never answered) and the clock reading of the end minus the
\* clock reading at which the call was answered if it is ended from answered.
C12_DurationFromAnswer ==
  [][\A k \in DOMAIN calls :
       (calls[k].status \in {"ongoing", "answered"} /\ calls'[k].status = "ended")
         => calls'[k].duration =
              IF calls[k].status = "ongoing" THEN 0 ELSE now - hist.answered[k]]_vars

\* The event a call handler's transition announces.
CallEventOf(kind) ==
  IF kind \in {"call_answer", "rest_call_answer"} THEN "call_answered"
  ELSE IF kind \in {"call_reject", "rest_call_reject"} THEN "call_rejected"
  ELSE IF kind = "rest_call_miss" THEN "call_missed"
  ELSE "call_ended"

\* C13: every call transition that succeeds (answer, reject, end, miss, by
\* socket event or REST route) emits its event to the registered socket of
\* the party other than the acting user when that party has a presence entry,
\* to nobody when it has none, and never to the acting user.  Stated for an
\* acting user entitled to the transition, in a call between two different
\* users.
C13_OtherPartyNotified ==
  [][\A t \in Slots :
       (tasks[t].kind \in CalleeKinds \cup EndKinds /\ tasks'[t].kind = "idle"
          /\ calls'[tasks[t].mid].status # calls[tasks[t].mid].status
          /\ calls[tasks[t].mid].caller # calls[tasks[t].mid].callee
          /\ MayAct(tasks[t]))
         => LET h == tasks[t]
                other == OtherParty(h.mid, h.user)
            IN out'.ev = IF connectedUsers[other] = None THEN <<>>
                         ELSE <<Event(connectedUsers[other], CallEventOf(h.kind),
                                      None, h.mid, "", h.user)>>]_vars

NoStatusUpdate(evs) == \A i \in DOMAIN evs : evs[i].ev # "message_status_update"

\* C14: a send_message of a participant persists the message with status
\* sent; when no other participant of the conversation has a presence entry
\* at the check (all absent, or nobody else in the conversation) the handler
\* writes no other status, acknowledges success, and none of its steps emits
\* a message_status_update.
C14_SendToAbsent ==
  [][\A t \in Slots : HandlerStep(t, "send") =>
       /\ tasks[t].pc = "insert"
            => /\ Len(messages') = Len(messages) + 1
               /\ messages'[tasks'[t].mid].status = "sent"
               /\ messages'[tasks'[t].mid].sender = tasks[t].user
       /\ (tasks[t].pc = "others"
             /\ ~AnyOnline(OtherParticipants(tasks[t].conv, tasks[t].user)))
            => /\ messages' = messages /\ NoStatusUpdate(out'.ev)
               /\ tasks'[t].pc = "final" /\ ~tasks'[t].online
       /\ (tasks[t].pc = "final" /\ ~tasks[t].online)
            => /\ messages' = messages /\ NoStatusUpdate(out'.ev)
               /\ out'.ack = <<Ack(tasks[t].sock, "send_message", TRUE)>>]_vars

\* C14 witness: a send that found every recipient absent has just been
\* acknowledged to a sender with a presence entry; the message is still sent.
C14_Witness ==
  /\ out.ack # <<>> /\ out.ack[1].op = "send_message" /\ out.ack[1].ok
  /\ messages # <<>>
  /\ Len(messages) \in hist.offline
  /\ messages[Len(messages)].status = "sent"
  /\ connectedUsers[messages[Len(messages)].sender] # None
  /\ NoStatusUpdate(out.ev)

DeliveredUpdateAt(evs, i, s, c, m) ==
  /\ evs[i].ev = "message_status_update" /\ evs[i].status = "delivered"
  /\ evs[i].to = s /\ evs[i].conv = c /\ evs[i].mid = m

\* C15: when a send_message finds another participant with a presence entry
\* at the check, nothing is broadcast before the UPDATE, the UPDATE leaves the
\* message delivered, new_message is broadcast to the room with status
\* delivered, and the sender's registered socket is sent one
\* message_status_update with status delivered, emitted after the success
\* acknowledgment and never before it.
C15_SendToPresent ==
  [][\A t \in Slots : HandlerStep(t, "send") =>
       LET h == tasks[t] IN
       /\ (h.pc = "others" /\ AnyOnline(OtherParticipants(h.conv, h.user)))
            => tasks'[t].pc = "update" /\ tasks'[t].online /\ out'.ev = <<>>
       /\ h.pc = "update"
            => /\ messages'[h.mid].status = "delivered"
               /\ {out'.ev[i].to : i \in DOMAIN out'.ev} = RoomSockets(h.conv)
               /\ \A i \in DOMAIN out'.ev :
                    /\ out'.ev[i].ev = "new_message" /\ out'.ev[i].status = "delivered"
                    /\ out'.ev[i].mid = h.mid
       /\ (h.pc = "final" /\ h.online)
            => /\ out'.ack = <<Ack(h.sock, "send_message", TRUE)>>
               /\ connectedUsers[h.user] # None
                    => \E i \in DOMAIN out'.ev :
                         /\ DeliveredUpdateAt(out'.ev, i, connectedUsers[h.user], h.conv, h.mid)
                         /\ \A j \in DOMAIN out'.ev :
                              DeliveredUpdateAt(out'.ev, j, connectedUsers[h.user],
                                                h.conv, h.mid) => j = i
               /\ \A i \in DOMAIN out'.ev :
                    out'.ev[i].ev = "message_status_update" => i > out'.ackAt]_vars

\* C15 witness: the send of a message that found a recipient present and was
\* broadcast to a joined recipient socket has just been acknowledged and the
\* sender notified of the delivery.
C15_Witness ==
  /\ out.ack # <<>> /\ out.ack[1].op = "send_message" /\ out.ack[1].ok
  /\ messages # <<>>
  /\ messages[Len(messages)].status = "delivered"
  /\ \E i \in DOMAIN out.ev :
       DeliveredUpdateAt(out.ev, i, connectedUsers[messages[Len(messages)].sender],
                         messages[Len(messages)].conv, Len(messages))
  /\ \E s \in RoomSockets(messages[Len(messages)].conv) :
       socks[s].user # messages[Len(messages)].sender

\* C16: for each send_message request the acknowledgment callback is invoked
\* exactly once: no step invokes it twice, a refused request is acknowledged
\* once as a failure, and a handler that persisted, broadcast and
\* acknowledged the message completes with that one success acknowledgment,
\* also when building or dispatching the push notifications fails.
C16_OneAcknowledgment ==
  [][/\ Len(out'.ack) <= 1
     /\ \A t \in Slots : Completes(t, "send")
          => out'.ack = <<Ack(tasks[t].sock, "send_message", TRUE)>>]_vars

\* C17: a send_message whose push section runs to its end dispatches a push
\* notification for exactly the other participants of the conversation that
\* have no presence entry at that moment and a valid push token: none for the
\* sender, none for a participant with a presence entry; no other step of the
\* handler dispatches one.
C17_PushToAbsent ==
  [][\A t \in Slots : HandlerStep(t, "send") =>
       IF Completes(t, "send") /\ Len(out'.ack) = 1
       THEN /\ out'.push = {p \in Users :
                              /\ IsParticipant(tasks[t].conv, p) /\ p # tasks[t].user
                              /\ connectedUsers[p] = None /\ pushToken[p] = "valid"}
            /\ tasks[t].user \notin out'.push
            /\ \A p \in out'.push : connectedUsers[p] = None
       ELSE out'.push = {}]_vars

\* C17 witness: a send has just been acknowledged and a push dispatched for an
\* absent participant while another participant, present, got none.
C17_Witness ==
  /\ out.ack # <<>> /\ out.ack[1].op = "send_message" /\ out.ack[1].ok
  /\ out.push # {}
  /\ messages # <<>>
  /\ \E p \in OtherParticipants(messages[Len(messages)].conv, messages[Len(messages)].sender) :
       connectedUsers[p] # None /\ pushToken[p] = "valid" /\ p \notin out.push

\* C18: whenever a message_status_update naming message m with status s has
\* been emitted (by send_message, the sweep or mark_read), m exists and its
\* persisted status at that moment is s or a later status.
C18_UpdateNamesWrittenMessage ==
  \A i \in DOMAIN out.ev :
    out.ev[i].ev = "message_status_update"
      => /\ out.ev[i].mid \in DOMAIN messages
         /\ Rank(messages[out.ev[i].mid].status) >= Rank(out.ev[i].status)

\* A mark_read whose watermark UPDATE has been applied and whose status UPDATE
\* is still to come and has rows to change.
PartlyApplied(t) ==
  /\ tasks[t].kind = "mark_read" /\ tasks[t].pc \in {"receipt", "status"}
  /\ lastRead[<<tasks[t].conv, tasks[t].user>>] = tasks[t].mid
  /\ MarkReadTargets(tasks[t].conv, tasks[t].mid, tasks[t].user) # {}

\* C19: the persistent effects of one mark_read (receipt, watermark, status
\* update) are applied as a unit: no concurrently running handler reads a
\* state in which only some of them are applied.  Here: no sweep SELECT finds
\* as still `sent` a message that the watermark of a mark_read in flight
\* already covers.
C19_MarkReadAtomic ==
  [][\A t \in Slots, s \in Sockets :
       (PartlyApplied(t) /\ socks[s].sweep = "select" /\ socks'[s].sweep # "select")
         => socks'[s].pending
              \cap MarkReadTargets(tasks[t].conv, tasks[t].mid, tasks[t].user) = {}]_vars

\* Socket s is open and a later connection of the same user exists (sockets
\* are taken in ascending order).
Orphaned(s) ==
  /\ Open(s)
  /\ \E r \in Sockets : r > s /\ socks[r].st # "free" /\ socks[r].user = socks[s].user

\* C20: after user U connected on a second handle H2 while its earlier handle
\* H1 is still open, no event is delivered to H1: neither an event addressed
\* to U through the presence registry nor a new_message or user_typing
\* broadcast to a room H1 joined.
C20_OrphanGetsNothing ==
  \A i \in DOMAIN out.ev : ~Orphaned(out.ev[i].to)

\* C21: two send_message events received on one connection take effect in
\* the order of their receipt: the message of the earlier event is inserted
\* first (gets the smaller id), whatever the interleaving of the handlers'
\* persistence calls.
C21_ReceiptOrder ==
  \A t1, t2 \in Slots :
    (/\ tasks[t1].kind = "send" /\ tasks[t2].kind = "send"
     /\ tasks[t1].sock = tasks[t2].sock /\ tasks[t1].seq < tasks[t2].seq
     /\ tasks[t2].mid # None)
      => tasks[t1].mid # None /\ tasks[t1].mid < tasks[t2].mid

\* C22: the REST path leaves the persisted statuses the real-time path
\* leaves from the same state.  A message sent by POST
\* /api/messages/:conversationId while another participant has a presence
\* entry is delivered when the request completes, as after send_message; a
\* read acknowledgment of M by POST /api/messages/:messageId/read leaves
\* unread no message that mark_read up to M sets to read.
C22_RestAsRealTime ==
  [][\A t \in Slots :
       /\ (Completes(t, "rest_send")
             /\ AnyOnline(OtherParticipants(tasks[t].conv, tasks[t].user)))
            => Rank(messages'[tasks[t].mid].status) >= Rank("delivered")
       /\ Completes(t, "rest_read")
            => \A m \in DOMAIN messages :
                 (messages[m].conv = tasks[t].conv /\ m <= tasks[t].mid
                    /\ messages[m].sender # tasks[t].user)
                   => messages'[m].status = "read"]_vars

\* A token the claim counts as no credential: missing, invalid, expired, or
\* naming a user that does not exist.
BadToken(tok) == tok.kind # "valid" \/ tok.user \notin Users

\* C23: a connection attempt with a missing, invalid or expired token, or a
\* token of a user that does not exist, is rejected and creates no state: no
\* presence entry, no socket, no is_online write, no room joined, no sweep
\* started.
C23_RejectedAttemptLeavesNoState ==
  [][\A tok \in Tokens : (BadToken(tok) /\ ConnectAttempt(tok))
       => /\ out'.ack = <<Ack(tok, "connect", FALSE)>> /\ out'.ev = <<>>
          /\ UNCHANGED <<connectedUsers, userSockets, socks, isOnline, messages, tasks>>]_vars

\* C23 witness: an attempt with an expired token of an existing user has just
\* been rejected while another connection is open.
C23_Witness ==
  /\ out.ack # <<>> /\ out.ack[1].op = "connect" /\ ~out.ack[1].ok
  /\ out.ack[1].who.kind = "expired" /\ out.ack[1].who.user \in Users
  /\ connectedUsers[out.ack[1].who.user] = None
  /\ \E s \in Sockets : Open(s)

\* C24: send_message from an authenticated user who is no participant of the
\* conversation is answered with a failure acknowledgement; no message is
\* inserted, no new_message is broadcast, no push is sent, no handler is left
\* running, and the connection and its presence entry stay.
C24_NonParticipantSendRefused ==
  [][\A s \in Sockets, c \in Convs :
       (/\ Open(s) /\ <<c, socks[s].user>> \notin participants
        /\ SendStart(s, c))
         => /\ out'.ack = <<Ack(s, "send_message", FALSE)>>
            /\ out'.ev = <<>> /\ out'.push = {}
            /\ UNCHANGED <<messages, receipts, lastRead, tasks, socks, connectedUsers, userSockets>>
            /\ Open(s)']_vars

\* C24 witness: a non-participant's send_message has just been refused, nothing
\* was ever inserted, and the sender is still connected and registered.
C24_Witness ==
  \E s \in Sockets :
    /\ Open(s) /\ connectedUsers[socks[s].user] = s
    /\ \E c \in Convs : <<c, socks[s].user>> \notin participants
    /\ out.ack = <<Ack(s, "send_message", FALSE)>>
    /\ messages = <<>> /\ \A t \in Slots : tasks[t].kind = "idle"

\* C25: on disconnect the presence entry of the user is removed first (nothing
\* is persisted or emitted in that step); is_online = false is persisted
\* next; user_offline is emitted only in the continuation of that write, once
\* to every other connected socket and not to the disconnecting one.
C25_DisconnectOrder ==
  [][\A s \in Sockets :
       /\ Disconnect(s)
            => /\ connectedUsers'[socks[s].user] = None /\ userSockets'[s] = None
               /\ isOnline' = isOnline /\ out'.ev = <<>>
               /\ socks'[s].offline
       /\ (\E i \in DOMAIN out'.ev : out'.ev[i].ev = "user_offline" /\ out'.ev[i].by = socks[s].user
                                      /\ socks[s].offline)
            => /\ socks[s].st = "closed" /\ userSockets[s] = None
               /\ isOnline'[socks[s].user] = FALSE
               /\ \A i \in DOMAIN out'.ev : out'.ev[i].ev = "user_offline"
               /\ \A r \in Sockets :
                    Cardinality({i \in DOMAIN out'.ev : out'.ev[i].to = r})
                      = IF Open(r) /\ r # s THEN 1 ELSE 0]_vars

\* C25 witness: user_offline has just been emitted to another connected socket
\* for a user whose entry is gone and whose is_online is false.
C25_Witness ==
  \E s, r \in Sockets :
    /\ s # r /\ socks[s].st = "closed" /\ ~socks[s].offline /\ Open(r)
    /\ connectedUsers[socks[s].user] = None /\ ~isOnline[socks[s].user]
    /\ out.ev # <<>>
    /\ \A i \in DOMAIN out.ev :
         out.ev[i].ev = "user_offline" /\ out.ev[i].by = socks[s].user /\ out.ev[i].to # s
    /\ \E i \in DOMAIN out.ev : out.ev[i].to = r

\* C26: on connect the user is registered, then the pending-delivery sweep runs
\* to completion, then the rooms are joined, then is_online = true is
\* persisted: the join resolves only after the sweep is done, and the
\* is_online write takes effect only after the join is done.
C26_ConnectOrder ==
  [][\A s \in Sockets :
       /\ JoinRooms(s) => socks[s].sweep = "done"
       /\ OnlineWrite(s) => (socks[s].sweep = "done" /\ ~socks[s].join)]_vars

\* No connect or disconnect handler, and no helper one of them started, is in
\* progress.
Quiescent ==
  \A s \in Sockets :
    socks[s].st # "free"
      => /\ ~socks[s].online /\ ~socks[s].offline /\ ~socks[s].join
         /\ socks[s].sweep = "done"

\* C27: whenever no connect or disconnect handler is in progress, is_online of
\* a user is true exactly when the presence registry holds an entry for the
\* user.
C27_OnlineIffRegistered ==
  Quiescent => \A u \in Users : isOnline[u] <=> (connectedUsers[u] # None)

\* C28: a typing indicator changes no persisted state and no presence state
\* and is not acknowledged; from a participant it is sent as user_typing once
\* to each socket joined to the room of the conversation other than the
\* sending socket, from a non-participant it is sent to nobody.
C28_TypingIsTransient ==
  [][\A s \in Sockets, c \in Convs :
       Typing(s, c)
         => /\ UNCHANGED <<participants, lastRead, messages, receipts, isOnline, calls,
                           connectedUsers, userSockets, socks, tasks>>
            /\ out'.ack = <<>> /\ out'.push = {}
            /\ \A i \in DOMAIN out'.ev :
                 /\ out'.ev[i].ev = "user_typing" /\ out'.ev[i].conv = c
                 /\ out'.ev[i].by = socks[s].user
            /\ \A r \in Sockets :
                 Cardinality({i \in DOMAIN out'.ev : out'.ev[i].to = r})
                   = IF /\ <<c, socks[s].user>> \in participants
                        /\ socks[r].st = "open" /\ c \in socks[r].rooms /\ r # s
                     THEN 1 ELSE 0]_vars

\* C28 witness: a participant's typing indicator has just reached another
\* socket of the room while the sending socket, itself in the room, got none.
C28_Witness ==
  \E s, r \in Sockets : \E c \in Convs :
    /\ s # r /\ Open(s) /\ Open(r) /\ c \in socks[s].rooms /\ c \in socks[r].rooms
    /\ out.ev # <<>>
    /\ \A i \in DOMAIN out.ev :
         /\ out.ev[i].ev = "user_typing" /\ out.ev[i].conv = c
         /\ out.ev[i].by = socks[s].user /\ out.ev[i].to # s
    /\ \E i \in DOMAIN out.ev : out.ev[i].to = r

\* C29: a WebRTC signaling message is relayed to at most one socket, the one
\* registered for the target user, with senderId the authenticated user of the
\* sending connection; it is dropped when the target has no presence entry;
\* and it is relayed only between the two parties of a call session.
C29_RelayWithinCallOnly ==
  [][\A s \in Sockets, target \in Users, kind \in WebrtcKinds :
       WebrtcRelay(s, target, kind)
         => /\ Len(out'.ev) <= 1
            /\ connectedUsers[target] = None => out'.ev = <<>>
            /\ \A i \in DOMAIN out'.ev :
                 /\ out'.ev[i].to = connectedUsers[target]
                 /\ out'.ev[i].by = socks[s].user
                 /\ \E k \in DOMAIN calls :
                      {calls[k].caller, calls[k].callee} = {socks[s].user, target}]_vars

\* C30: an event with a malformed payload (send_message without
\* conversationId; mark_read without conversationId or messageId;
\* call_initiate without calleeId or type; call_answer, call_reject, call_end
\* without callId) is answered with a failure acknowledgement in the step
\* that receives it, with no persistence call issued: no handler is left
\* awaiting a query and no table changes.
C30_MalformedRefusedFirst ==
  [][\A s \in Sockets :
       /\ SendMalformed(s)
            => /\ out'.ack = <<Ack(s, "send_message", FALSE)>>
               /\ UNCHANGED <<tasks, messages>>
       /\ \A kind \in UncheckedKinds, c \in Convs \cup {None}, m \in MsgIds \cup {None} :
            MalformedStart(s, kind, c, m)
              => /\ out'.ack = <<Ack(s, kind, FALSE)>>
                 /\ UNCHANGED <<tasks, lastRead, receipts, messages, calls>>]_vars

\* C31: a mark_read notifies only senders that have a message whose status
\* this acknowledgment changed to read; a sender whose messages up to M were
\* all read already gets no message_status_update.
C31_OnlyChangedSendersNotified ==
  [][\A t \in Slots :
       Completes(t, "mark_read")
         => \A i \in DOMAIN out'.ev :
              \E a \in tasks[t].others : connectedUsers[a] = out'.ev[i].to]_vars

\* The pending messages of sender a in conversation c among ids.
PendingOf(ids, a, c) == {m \in ids : messages[m].sender = a /\ messages[m].conv = c}

\* C32: a pending-delivery sweep for user U that ran without interleaving (what
\* it selected is still exactly what is pending for U when its UPDATE takes
\* effect) leaves no non-deleted message of another user in a conversation of
\* U at sent; each sender with a presence entry gets exactly one
\* message_status_update per conversation, naming the highest pending id of
\* that sender in that conversation with status delivered; senders without a
\* presence entry, and everyone else, get nothing.  A sweep that selects
\* nothing writes and emits nothing.
C32_SweepDeliversAll ==
  [][\A s \in Sockets :
       LET u == socks[s].user
           ids == socks[s].pending
           still == {m \in DOMAIN messages :
                       /\ <<messages[m].conv, u>> \in participants /\ messages[m].sender # u
                       /\ messages[m].status = "sent" /\ ~messages[m].deleted}
       IN
       /\ (socks[s].sweep = "update" /\ socks'[s].sweep = "done" /\ ids = still)
            => /\ \A m \in DOMAIN messages' :
                    (/\ <<messages'[m].conv, u>> \in participants /\ messages'[m].sender # u
                     /\ ~messages'[m].deleted)
                      => messages'[m].status # "sent"
               /\ \A a \in Users, c \in Convs :
                    LET evs == {i \in DOMAIN out'.ev :
                                  /\ connectedUsers[a] # None
                                  /\ out'.ev[i].to = connectedUsers[a] /\ out'.ev[i].conv = c}
                    IN IF connectedUsers[a] # None /\ PendingOf(ids, a, c) # {}
                       THEN /\ Cardinality(evs) = 1
                            /\ \A i \in evs :
                                 /\ out'.ev[i].ev = "message_status_update"
                                 /\ out'.ev[i].status = "delivered"
                                 /\ out'.ev[i].mid = SetMax(PendingOf(ids, a, c))
                       ELSE evs = {}
               /\ \A i \in DOMAIN out'.ev :
                    \E a \in Users : connectedUsers[a] = out'.ev[i].to
       /\ (socks[s].sweep = "select" /\ socks'[s].sweep = "done")
            => /\ still = {} /\ messages' = messages /\ out'.ev = <<>>]_vars

\* C32 witness: a sweep has just delivered two pending messages of one sender
\* in one conversation and sent that sender a single update naming the higher
\* id.
C32_Witness ==
  \E s \in Sockets :
    /\ socks[s].sweep = "done" /\ Len(messages) >= 2
    /\ messages[1].sender = messages[2].sender /\ messages[1].conv = messages[2].conv
    /\ messages[1].sender # socks[s].user
    /\ messages[1].status = "delivered" /\ messages[2].status = "delivered"
    /\ hist.dnotes[1] = 0 /\ hist.dnotes[2] = 1
    /\ Len(out.ev) = 1 /\ out.ev[1].ev = "message_status_update"
    /\ out.ev[1].mid = 2 /\ out.ev[1].status = "delivered"
    /\ out.ev[1].to = connectedUsers[messages[1].sender]

\* Message m was sent by send_message and is owed a delivery: its send found a
\* recipient in the presence registry, or a participant other than its sender
\* has registered and the sweep of that connection is still to select.
OwedDelivery(m) ==
  /\ m \in DOMAIN messages
  /\ \/ \E t \in Slots : tasks[t].kind = "send" /\ tasks[t].mid = m /\ tasks[t].online
     \/ \E s \in Sockets :
          /\ socks[s].sweep = "select"
          /\ <<messages[m].conv, socks[s].user>> \in participants
          /\ socks[s].user # messages[m].sender

C34_RegistryNamesLiveSockets ==
  \A u \in Users :
    connectedUsers[u] # None
      => /\ socks[connectedUsers[u]].st = "open"
         /\ socks[connectedUsers[u]].user = u
         /\ userSockets[connectedUsers[u]] = u

\* C34 witness: after a socket has disconnected, the registry resolves a user
\* to a socket that is still connected.
C34_Witness ==
  \E u \in Users, r \in Sockets :
    /\ socks[r].st = "closed"
    /\ connectedUsers[u] # None /\ connectedUsers[u] # r
    /\ socks[connectedUsers[u]].st = "open" /\ userSockets[connectedUsers[u]] = u

\* C35: when send_message marks the message delivered at send time, its
\* new_message broadcast reaches the registered socket of every other
\* participant that has a presence entry, also one whose connect handler has
\* registered it but has not yet joined the rooms.
C35_BroadcastReachesRegistered ==
  [][\A t \in Slots :
       (/\ tasks[t].kind = "send" /\ tasks[t].pc = "update" /\ tasks'[t].pc = "final"
        /\ tasks[t].online)
         => \A p \in tasks[t].others :
              connectedUsers[p] # None
                => \E i \in DOMAIN out'.ev :
                     /\ out'.ev[i].ev = "new_message" /\ out'.ev[i].mid = tasks[t].mid
                     /\ out'.ev[i].to = connectedUsers[p]]_vars

\* C36: a new_message or user_typing of conversation c reaches only sockets
\* whose user is a participant of c when it is broadcast; a user removed from
\* c while connected receives no further such event of c.
C36_OnlyParticipantsReceive ==
  \A i \in DOMAIN out.ev :
    out.ev[i].ev \in {"new_message", "user_typing"}
      => <<out.ev[i].conv, socks[out.ev[i].to].user>> \in participants

\* C37: the last-read watermark of a participant for a conversation never
\* decreases (no watermark counts as below every id), over socket mark_read,
\* POST /messages/:messageId/read and PUT /conversations/:id/read, a mark_read
\* naming an id below the current watermark included.
C37_WatermarkNeverDecreases ==
  [][\A c \in Convs, u \in Users : lastRead'[<<c, u>>] >= lastRead[<<c, u>>]]_vars

\* No event handler, REST request or sweep UPDATE is in progress.
NoHandlerInProgress ==
  /\ \A t \in Slots : tasks[t].kind = "idle"
  /\ \A s \in Sockets : socks[s].sweep # "update"

\* C38: whenever no handler is in progress, a message with a read receipt from
\* a user other than its sender has status read.
C38_ReceiptMeansRead ==
  NoHandlerInProgress
    => \A m \in DOMAIN messages :
         (\E u \in Users : u # messages[m].sender /\ <<m, u>> \in receipts)
           => messages[m].status = "read"

====
